---- MODULE Spec2Model ----
(***************************************************************************)
(* The listing page of The Grand Residences (script.js): the filter state, *)
(* the paginated fetch controller fetchFlats, the favourites kept in       *)
(* memory, in localStorage and in the per-user remote record, and the      *)
(* document store the queries run against.                                 *)
(*                                                                         *)
(* Every await of the script is a point where another handler may run, so  *)
(* each asynchronous function is split at its awaits: the synchronous part *)
(* up to the await is one action, the store's answer (resolve or reject)   *)
(* another.  Requests in flight are kept in bags.                          *)
(***************************************************************************)
EXTENDS Integers, Sequences, FiniteSets, Bags, TLC

VARIABLES
    seed,               \* which store contents this run reads (never changes)
    authReady,          \* the auth observer has fired: main content is shown
    currentUser,        \* auth.currentUser
    currentFilters,     \* the FilterState record
    allFlatsData,       \* accumulated records (ids of the units, in order)
    displayedFlatsCount,
    lastVisibleFlat,    \* the cursor: a document of the store, or Null
    favorites,          \* in-memory list of favourite ids
    storedFavorites,    \* localStorage 'favorites': a list, or absent
    remoteFavorites,    \* users/<uid>: the favorites field, or no document
    flatsList,          \* children of #flatsList: cards (ids) or skeletons
    loadMoreBtnHidden,  \* 'hidden' class of #loadMoreBtn
    noFlatsMessage,     \* #no-flats-message: hidden class and text
    toast,              \* the toast the latest step raised (toasts are
                        \* transient: each removes itself after 3 s)
    lastFetch,          \* what fetchFlats did in the latest step, if it ran
    pendingFetches,     \* bag of getDocs(flats query) calls in flight
    pendingLoads,       \* number of loadFavorites getDoc calls in flight
    pendingToggles,     \* bag of toggleFavorite calls waiting on the store
    toggles,            \* toggleFavorite calls a signed-in user has made
    recentlyViewed,     \* in-memory list of the units viewed last
    storedRecentlyViewed, \* localStorage 'recentlyViewed': a list, or absent
    currentCurrency,
    uncaught,           \* the error the latest step threw and nothing caught
    inquiries,          \* collection "inquiries": the documents written
    pendingInquiries,   \* bag of the contact form's addDoc calls in flight
    formMessage,        \* #form-message: text and colour
    apiCalls,           \* bag of relay requests waiting on the store
    response            \* the response the relay sent in the latest step

vars == <<seed, authReady, currentUser, currentFilters, allFlatsData,
          displayedFlatsCount, lastVisibleFlat, favorites, storedFavorites,
          remoteFavorites, flatsList, loadMoreBtnHidden, noFlatsMessage,
          toast, lastFetch, pendingFetches, pendingLoads, pendingToggles,
          toggles, recentlyViewed, storedRecentlyViewed, currentCurrency,
          uncaught, inquiries, pendingInquiries, formMessage, apiCalls,
          response>>

-----------------------------------------------------------------------------
(* Bounds of the model *)

NumFlats == 8           \* documents in the flats collection
MaxSeed == 0            \* store contents are drawn from seeds 0..MaxSeed
MaxInFlight == 2        \* store calls in flight at once
MaxToggles == 2         \* toggleFavorite calls by a signed-in user
MaxCardClicked == 1     \* favourite buttons are clicked on the first cards
NumScenarios == 16      \* stores the pagination scenario is run against
MaxInquiries == 2       \* documents written to the inquiries collection

(* Program constants *)

flatsPerPage == 6
skeletonCount == 6
recentlyViewedLimit == 3
Null == 0               \* null cursor / absent value
NaN == -1               \* parseFloat of text with no leading number; the
                        \* store orders NaN before every number

-----------------------------------------------------------------------------
(* The document store: collection "flats" *)

\* Stores 0..MaxSeed hold NumFlats sample documents; the stores after them
\* hold the documents of the pagination scenario.
SampleSeeds == 0..MaxSeed
ScenarioSeeds == (MaxSeed + 1)..(MaxSeed + NumScenarios)

StoreSize(s) == IF s \in ScenarioSeeds THEN 15 ELSE NumFlats
Ids(s) == 1..StoreSize(s)

\* Document i of sample store s
FlatDoc(i, s) ==
    [id        |-> i,
     price     |-> ((3 * i + s) % 5) + 1,
     area      |-> ((2 * i + s) % 3) + 1,
     offerType |-> IF (i + s) % 4 = 0 THEN "sale" ELSE "rent",
     type      |-> IF i % 2 = 0 THEN "studio" ELSE "1BR"]

\* Document i of scenario store s.  Two documents of every three are for
\* rent at a price from 1000 to 2000, both ends included and prices
\* repeated; the third is for sale, or for rent just below 1000 or just
\* above 2000.  Of 15 documents, 10 are of the first kind.
ScenarioDoc(i, s) ==
    LET other == ((i + s) \div 3) % 3
    IN  [id        |-> i,
         price     |-> IF (i + s) % 3 # 0 THEN 1000 + ((7 * i + s) % 11) * 100
                       ELSE IF other = 0 THEN 1500
                       ELSE IF other = 1 THEN 999 ELSE 2001,
         area      |-> ((2 * i + s) % 3) + 1,
         offerType |-> IF (i + s) % 3 = 0 /\ other = 0 THEN "sale" ELSE "rent",
         type      |-> IF i % 2 = 0 THEN "studio" ELSE "1BR"]

Flats ==
    [s \in SampleSeeds \cup ScenarioSeeds |->
        [i \in Ids(s) |-> IF s \in ScenarioSeeds THEN ScenarioDoc(i, s)
                          ELSE FlatDoc(i, s)]]

Flat(i) == Flats[seed][i]

-----------------------------------------------------------------------------
(* Text of the price inputs and parseFloat *)

Digits == {"0", "1", "2", "3", "4", "5", "6", "7", "8", "9"}

DigitValue(c) ==
    CASE c = "0" -> 0 [] c = "1" -> 1 [] c = "2" -> 2 [] c = "3" -> 3
      [] c = "4" -> 4 [] c = "5" -> 5 [] c = "6" -> 6 [] c = "7" -> 7
      [] c = "8" -> 8 [] c = "9" -> 9

RECURSIVE LeadingDigits(_)
LeadingDigits(text) ==
    IF text = <<>> \/ Head(text) \notin Digits THEN <<>>
    ELSE <<Head(text)>> \o LeadingDigits(Tail(text))

RECURSIVE DigitsToNumber(_)
DigitsToNumber(ds) ==
    IF ds = <<>> THEN 0
    ELSE 10 * DigitsToNumber(SubSeq(ds, 1, Len(ds) - 1)) + DigitValue(ds[Len(ds)])

\* parseFloat: the longest numeric prefix, NaN when there is none
parseFloat(text) ==
    IF LeadingDigits(text) = <<>> THEN NaN ELSE DigitsToNumber(LeadingDigits(text))

\* JavaScript truthiness of a string: every non-empty string is truthy
Truthy(text) == text # <<>>

-----------------------------------------------------------------------------
(* The query fetchFlats composes, and what the store answers *)

\* where(...) clauses of lines 619-632
Matches(u, q) ==
    /\ q.filters.offerType # "all" => u.offerType = q.filters.offerType
    /\ q.filters.flatType # "all" => u.type = q.filters.flatType
    /\ Truthy(q.filters.minPrice) => u.price >= parseFloat(q.filters.minPrice)
    /\ Truthy(q.filters.maxPrice) => u.price <= parseFloat(q.filters.maxPrice)
    /\ q.filters.showFavorites =>
          \E k \in 1..Len(q.inIds) : q.inIds[k] = u.id

\* orderBy(...) of lines 642-652
SortByValues == {"price-asc", "price-desc", "area-asc", "area-desc", "newest"}

OrderField(sortBy) ==
    IF sortBy \in {"area-asc", "area-desc"} THEN "area" ELSE "price"

OrderDirection(sortBy) ==
    IF sortBy \in {"price-asc", "area-asc"} THEN "asc" ELSE "desc"

\* A range clause on price is part of the query
Ranged(filters) == Truthy(filters.minPrice) \/ Truthy(filters.maxPrice)

\* The store orders by the explicit field, then by a range-filtered field
\* that is not the explicit one, then by document id, all in one direction.
OrderKey(u, sortBy, ranged) ==
    <<u[OrderField(sortBy)],
      IF OrderField(sortBy) # "price" /\ ranged THEN u.price ELSE 0,
      u.id>>

KeyLess(a, b) ==
    \/ a[1] < b[1]
    \/ a[1] = b[1] /\ a[2] < b[2]
    \/ a[1] = b[1] /\ a[2] = b[2] /\ a[3] < b[3]

Precedes(a, b, sortBy) ==
    IF OrderDirection(sortBy) = "asc" THEN KeyLess(a, b) ELSE KeyLess(b, a)

\* The whole collection in the order of each orderBy
OrderedIds ==
    [s \in SampleSeeds \cup ScenarioSeeds |->
     [sortBy \in SortByValues |-> [ranged \in BOOLEAN |->
        LET key == [i \in Ids(s) |-> OrderKey(Flats[s][i], sortBy, ranged)]
            rank == [i \in Ids(s) |->
                Cardinality({j \in Ids(s) : Precedes(key[j], key[i], sortBy)}) + 1]
        IN  [k \in Ids(s) |-> CHOOSE i \in Ids(s) : rank[i] = k]]]]

\* (variant: the query carries no limit)
PageLimitNone(n) == n
\* limit(flatsPerPage)
PageLimit(n) == IF n < flatsPerPage THEN n ELSE flatsPerPage

\* getDocs: of the documents in order, those strictly after the cursor
\* (startAfter) that match every where clause, cut to the limit
RunQuery(q) ==
    LET order == OrderedIds[seed][q.filters.sortBy][Ranged(q.filters)]
        start == IF q.after = Null THEN 0
                 ELSE CHOOSE k \in 1..Len(order) : order[k] = q.after
        hits == SelectSeq(SubSeq(order, start + 1, Len(order)),
                          LAMBDA i : Matches(Flat(i), q))
    IN  SubSeq(hits, 1, PageLimit(Len(hits)))

-----------------------------------------------------------------------------
(* Inputs *)

Users == {"u1"}
NoUser == "none"

\* What the filter controls hold when Apply is pressed: the default
\* snapshot and snapshots that make each clause of the query active.
Snapshot(offerType, flatType, minPrice, maxPrice, sortBy, showFavorites) ==
    [offerType |-> offerType, flatType |-> flatType, minPrice |-> minPrice,
     maxPrice |-> maxPrice, sortBy |-> sortBy, showFavorites |-> showFavorites]

FilterSnapshots ==
    {Snapshot("all", "all", <<>>, <<>>, "price-desc", FALSE),
     Snapshot("rent", "all", <<>>, <<>>, "price-asc", FALSE),
     Snapshot("rent", "studio", <<"2">>, <<"4">>, "area-asc", FALSE),
     Snapshot("all", "all", <<"4">>, <<"2">>, "newest", FALSE),
     Snapshot("all", "all", <<>>, <<>>, "area-desc", TRUE)}

\* Favourite lists a previous session may have left behind
FirstPage == [k \in 1..flatsPerPage |-> k]
Absent == <<Null>>      \* no localStorage entry / no user document

\* The favourites a user's document may hold from a previous session: the
\* units whose cards come first under the default filter and under the
\* rent filter
RemoteList == <<8, 5>>

Skeletons == [k \in 1..skeletonCount |-> Null]

Hidden(text) == [hidden |-> TRUE, text |-> text]
Shown(text) == [hidden |-> FALSE, text |-> text]
Toast(message, type) == [message |-> message, type |-> type]
NoToast == Toast("", "none")
NoFetch == [outcome |-> "none", reset |-> FALSE, docs |-> <<>>, found |-> <<>>]
NoError == "none"
FormMessage(text, color) == [text |-> text, color |-> color]
Response(status, body) == [status |-> status, body |-> body]
NoResponse == Response(Null, <<>>)

-----------------------------------------------------------------------------
(* Initial state: the module's globals (lines 77-94) once initialize() has *)
(* registered the auth observer and before the observer first fires.  The  *)
(* main content, and with it every control, is hidden until it does.       *)

Start(seeds) ==
    /\ seed \in seeds
    /\ authReady = FALSE
    /\ currentUser = NoUser
    /\ currentFilters = [offerType |-> "all", flatType |-> "all",
                         minPrice |-> <<>>, maxPrice |-> <<>>,
                         sortBy |-> "price-desc", searchTerm |-> <<>>,
                         showFavorites |-> FALSE]
    /\ allFlatsData = <<>>
    /\ displayedFlatsCount = 0
    /\ lastVisibleFlat = Null
    /\ storedFavorites \in {FirstPage, Absent}
    /\ favorites = IF storedFavorites = Absent THEN <<>> ELSE storedFavorites
    /\ remoteFavorites \in {RemoteList, Absent}
    /\ flatsList = <<>>
    /\ loadMoreBtnHidden = TRUE
    /\ noFlatsMessage = Hidden("")
    /\ toast = NoToast
    /\ lastFetch = NoFetch
    /\ pendingFetches = EmptyBag
    /\ pendingLoads = 0
    /\ pendingToggles = EmptyBag
    /\ toggles = 0
    /\ storedRecentlyViewed = Absent
    /\ recentlyViewed = <<>>
    /\ currentCurrency = "USD"
    /\ uncaught = NoError
    /\ inquiries = <<>>
    /\ pendingInquiries = EmptyBag
    /\ formMessage = FormMessage("", "")
    /\ apiCalls = EmptyBag
    /\ response = NoResponse

Init == Start(SampleSeeds)

\* Store calls in flight, and room for n more
StoreCalls ==
    BagCardinality(pendingFetches) + pendingLoads + BagCardinality(pendingToggles)

CanCall(n) == StoreCalls + n <= MaxInFlight

\* The steps of the listing complete without an uncaught error, and touch
\* neither the recently viewed list, the currency, the contact form nor the
\* relay
ListingStep ==
    /\ uncaught' = NoError
    /\ UNCHANGED <<recentlyViewed, storedRecentlyViewed, currentCurrency,
                   inquiries, pendingInquiries, formMessage, apiCalls,
                   response>>

-----------------------------------------------------------------------------
(* fetchFlats *)

\* The query of one call: the filter fields, the favourites and the cursor
\* read while composing it; and, when toggleFavorite made the call after
\* taking a unit off the favourites, that unit (Null otherwise).
FetchRequest(reset, filters, favs, cursor, removed) ==
    [reset |-> reset, filters |-> filters, inIds |-> favs, after |-> cursor,
     removed |-> removed]

\* What a step of fetchFlats did: how far it got, and the lists it saw
FetchStep(outcome, reset, docs, found) ==
    [outcome |-> outcome, reset |-> reset, docs |-> docs, found |-> found]

\* (variant: the reset keeps the accumulated records)
ResetListKept(reset, list) == list
\* The "reset" block, lines 608-616
ResetList(reset, list) == IF reset THEN <<>> ELSE list

\* (variant: the reset forgets the cursor)
ResetCursorKept(reset, cursor) == cursor
ResetCursor(reset, cursor) == IF reset THEN Null ELSE cursor

\* Line 633: show-favourites with nothing to show
NoFavoritesToShow(filters, favs) == filters.showFavorites /\ Len(favs) = 0

\* Lines 596-657: the synchronous part of fetchFlats(reset), run with the
\* filter state and the favourites the caller has just left behind.
FetchFlatsCall(reset, filters, favs, removed) ==
    /\ allFlatsData' = ResetList(reset, allFlatsData)
    /\ displayedFlatsCount' = IF reset THEN 0 ELSE displayedFlatsCount
    /\ lastVisibleFlat' = ResetCursor(reset, lastVisibleFlat)
    /\ IF NoFavoritesToShow(filters, favs)
       THEN /\ flatsList' = <<>>
            /\ noFlatsMessage' = Shown("No favorite apartments found.")
            /\ loadMoreBtnHidden' = TRUE
            /\ pendingFetches' = pendingFetches
            /\ lastFetch' = FetchStep("no-favorites", reset, <<>>, allFlatsData)
       ELSE /\ flatsList' = IF reset THEN <<>> ELSE Skeletons
            /\ noFlatsMessage' = IF reset THEN Hidden(noFlatsMessage.text)
                                 ELSE noFlatsMessage
            /\ loadMoreBtnHidden' = (reset \/ loadMoreBtnHidden)
            /\ pendingFetches' = pendingFetches (+)
                 SetToBag({FetchRequest(reset, filters, favs,
                                        ResetCursor(reset, lastVisibleFlat),
                                        removed)})
            /\ lastFetch' = FetchStep("called", reset, <<>>, allFlatsData)

\* (variant: any non-empty page counts as "more to come")
HasMorePagesIfAny(page) == Len(page) > 0
\* "Has more pages", lines 676-682
HasMorePages(page) == Len(page) = flatsPerPage

\* (variant: units already in the list are not appended again)
MergePageDistinct(list, page) ==
    list \o SelectSeq(page, LAMBDA id : \A k \in 1..Len(list) : list[k] # id)
\* Lines 664-675: a non-empty page is appended and moves the cursor to its
\* last document; an empty page changes neither
MergePage(list, page) == list \o page

\* (variant: an answer never moves the cursor)
CursorAfterKept(cursor, page) == cursor
\* (variant: an empty page clears the cursor)
CursorAfterCleared(cursor, page) == IF Len(page) > 0 THEN page[Len(page)] ELSE Null
CursorAfter(cursor, page) == IF Len(page) > 0 THEN page[Len(page)] ELSE cursor

\* (variant: an empty page is "no results" whatever the kind of fetch)
NoResultsAlways(reset) == TRUE
\* Line 687: an empty page is "no results" on a reset, and the end of the
\* pagination otherwise
NoResults(reset) == reset

\* Lines 657-696: getDocs resolved
FetchResolve(r) ==
    /\ BagIn(r, pendingFetches)
    /\ pendingFetches' = pendingFetches (-) SetToBag({r})
    /\ LET page == RunQuery(r) IN
       /\ lastFetch' = FetchStep("fetched", r.reset, page, <<>>)
       /\ flatsList' = page
       /\ lastVisibleFlat' = CursorAfter(lastVisibleFlat, page)
       /\ allFlatsData' = MergePage(allFlatsData, page)
       /\ displayedFlatsCount' = displayedFlatsCount + Len(page)
       /\ IF Len(page) > 0
          THEN /\ loadMoreBtnHidden' = ~HasMorePages(page)
               /\ noFlatsMessage' = Hidden(noFlatsMessage.text)
               /\ toast' = NoToast
          ELSE /\ loadMoreBtnHidden' = TRUE
               /\ IF NoResults(r.reset)
                  THEN /\ noFlatsMessage' =
                            Shown("No apartments found matching your criteria.")
                       /\ toast' = NoToast
                  ELSE /\ noFlatsMessage' = noFlatsMessage
                       /\ toast' = Toast("No more apartments to load.", "info")
    /\ UNCHANGED <<seed, authReady, currentUser, currentFilters, favorites,
                   storedFavorites, remoteFavorites, pendingLoads,
                   pendingToggles, toggles>>
    /\ ListingStep

\* (variant: the catch block empties the list it cleared the display of)
ListAfterErrorEmptied(list) == <<>>
\* What the catch block leaves in allFlatsData, lines 697-702
ListAfterError(list) == list

\* Lines 697-706: getDocs rejected
FetchReject(r) ==
    /\ BagIn(r, pendingFetches)
    /\ pendingFetches' = pendingFetches (-) SetToBag({r})
    /\ lastFetch' = FetchStep("error", r.reset, <<>>, <<>>)
    /\ toast' = Toast("Error loading apartments.", "error")
    /\ flatsList' = <<>>
    /\ noFlatsMessage' = Shown("Error loading apartments.")
    /\ allFlatsData' = ListAfterError(allFlatsData)
    /\ UNCHANGED <<seed, authReady, currentUser, currentFilters,
                   displayedFlatsCount, lastVisibleFlat, favorites,
                   storedFavorites, remoteFavorites, loadMoreBtnHidden,
                   pendingLoads, pendingToggles, toggles>>
    /\ ListingStep

-----------------------------------------------------------------------------
(* Event handlers *)

\* (variant: the sort order of the filter state is left as it was)
NewFiltersSortKept(snapshot) ==
    [offerType |-> snapshot.offerType, flatType |-> snapshot.flatType,
     minPrice |-> snapshot.minPrice, maxPrice |-> snapshot.maxPrice,
     sortBy |-> currentFilters.sortBy, searchTerm |-> currentFilters.searchTerm,
     showFavorites |-> snapshot.showFavorites]
\* Lines 725-730: every filter field is taken from the controls
NewFilters(snapshot) ==
    [offerType |-> snapshot.offerType, flatType |-> snapshot.flatType,
     minPrice |-> snapshot.minPrice, maxPrice |-> snapshot.maxPrice,
     sortBy |-> snapshot.sortBy, searchTerm |-> currentFilters.searchTerm,
     showFavorites |-> snapshot.showFavorites]

\* Lines 718-733
handleApplyFilters(snapshot) ==
    /\ authReady
    /\ CanCall(1)
    /\ currentFilters' = NewFilters(snapshot)
    /\ FetchFlatsCall(TRUE, NewFilters(snapshot), favorites, Null)
    /\ toast' = NoToast
    /\ UNCHANGED <<seed, authReady, currentUser, favorites, storedFavorites,
                   remoteFavorites, pendingLoads, pendingToggles, toggles>>
    /\ ListingStep

\* Lines 735-737
handleLoadMore ==
    /\ authReady
    /\ CanCall(1)
    /\ FetchFlatsCall(FALSE, currentFilters, favorites, Null)
    /\ toast' = NoToast
    /\ UNCHANGED <<seed, authReady, currentUser, currentFilters, favorites,
                   storedFavorites, remoteFavorites, pendingLoads,
                   pendingToggles, toggles>>
    /\ ListingStep

-----------------------------------------------------------------------------
(* Authentication observer, lines 913-940: it fires once at start-up and   *)
(* then whenever the user signs in or out.                                 *)

onAuthStateChanged(user) ==
    /\ ~authReady \/ user # currentUser
    /\ authReady' = TRUE
    /\ currentUser' = user
    /\ IF user # NoUser
       THEN /\ CanCall(2)
            /\ pendingLoads' = pendingLoads + 1
            /\ toast' = Toast("Welcome back", "success")
            /\ UNCHANGED <<favorites, storedFavorites>>
            /\ FetchFlatsCall(TRUE, currentFilters, favorites, Null)
       ELSE /\ CanCall(1)
            /\ favorites' = <<>>
            /\ storedFavorites' = Absent
            /\ toast' = NoToast
            /\ UNCHANGED pendingLoads
            /\ FetchFlatsCall(TRUE, currentFilters, <<>>, Null)
    /\ UNCHANGED <<seed, currentFilters, remoteFavorites, pendingToggles,
                   toggles>>
    /\ ListingStep

-----------------------------------------------------------------------------
(* loadFavorites, lines 423-443 *)

\* Lines 426-435: the user's document was read
loadFavoritesResolve ==
    /\ pendingLoads > 0
    /\ pendingLoads' = pendingLoads - 1
    /\ IF remoteFavorites # Absent
       THEN /\ favorites' = remoteFavorites
            /\ storedFavorites' = remoteFavorites
       ELSE /\ favorites' = <<>>
            /\ storedFavorites' = Absent
    /\ toast' = NoToast
    /\ lastFetch' = NoFetch
    /\ UNCHANGED <<seed, authReady, currentUser, currentFilters, allFlatsData,
                   displayedFlatsCount, lastVisibleFlat, remoteFavorites,
                   flatsList, loadMoreBtnHidden, noFlatsMessage,
                   pendingFetches, pendingToggles, toggles>>
    /\ ListingStep

\* Lines 436-442: the read failed
loadFavoritesReject ==
    /\ pendingLoads > 0
    /\ pendingLoads' = pendingLoads - 1
    /\ favorites' = <<>>
    /\ storedFavorites' = Absent
    /\ toast' = Toast("Error loading your favorites.", "error")
    /\ lastFetch' = NoFetch
    /\ UNCHANGED <<seed, authReady, currentUser, currentFilters, allFlatsData,
                   displayedFlatsCount, lastVisibleFlat, remoteFavorites,
                   flatsList, loadMoreBtnHidden, noFlatsMessage,
                   pendingFetches, pendingToggles, toggles>>
    /\ ListingStep

-----------------------------------------------------------------------------
(* toggleFavorite, lines 387-421 *)

\* The favourite buttons that can be clicked: those of the first cards shown
ClickableCards ==
    {flatsList[k] : k \in {n \in 1..Len(flatsList) : n <= MaxCardClicked}}
        \ {Null}

\* (variant: the sign-in check is skipped)
SignedInUnchecked(user) == TRUE
\* Line 388
SignedIn(user) == user # NoUser

Includes(list, id) == \E k \in 1..Len(list) : list[k] = id

\* A call of toggleFavorite between its awaits: the unit, the await it is
\* at, the list it is writing, and whether the unit was a favourite, in
\* memory and in the user's document, when the call was made
ToggleCall(flatId, stage, userFavorites, before) ==
    [flatId |-> flatId, stage |-> stage, userFavorites |-> userFavorites,
     before |-> before]

MembershipOf(flatId) ==
    [local |-> Includes(favorites, flatId),
     remote |-> remoteFavorites # Absent /\ Includes(remoteFavorites, flatId)]

\* userFavorites.splice(index, 1) at the first index of id
Splice(list, id) ==
    LET index == CHOOSE k \in 1..Len(list) :
                    list[k] = id /\ \A n \in 1..(k - 1) : list[n] # id
    IN  SubSeq(list, 1, index - 1) \o SubSeq(list, index + 1, Len(list))

\* favorites.filter(id => id !== flatId)
Without(list, id) == SelectSeq(list, LAMBDA x : x # id)

\* Lines 387-395: the click, up to the read of the user's document
toggleFavorite(flatId) ==
    /\ authReady
    /\ flatId \in ClickableCards
    /\ lastFetch' = NoFetch
    /\ IF SignedIn(currentUser)
       THEN /\ toggles < MaxToggles
            /\ CanCall(1)
            /\ toggles' = toggles + 1
            /\ pendingToggles' = pendingToggles (+)
                    SetToBag({ToggleCall(flatId, "getDoc", <<>>,
                                         MembershipOf(flatId))})
            /\ toast' = NoToast
       ELSE /\ toast' = Toast("Please log in to manage favorites.", "info")
            /\ UNCHANGED <<pendingToggles, toggles>>
    /\ UNCHANGED <<seed, authReady, currentUser, currentFilters, allFlatsData,
                   displayedFlatsCount, lastVisibleFlat, favorites,
                   storedFavorites, remoteFavorites, flatsList,
                   loadMoreBtnHidden, noFlatsMessage, pendingFetches,
                   pendingLoads>>
    /\ ListingStep

\* Lines 395-411: the document was read; both lists are updated and the
\* write is issued
toggleGetDocResolve(t) ==
    /\ BagIn(t, pendingToggles)
    /\ t.stage = "getDoc"
    /\ LET userFavorites == IF remoteFavorites # Absent THEN remoteFavorites
                            ELSE <<>>
       IN  IF Includes(userFavorites, t.flatId)
           THEN /\ favorites' = Without(favorites, t.flatId)
                /\ toast' = Toast("Removed from favorites.", "info")
                /\ pendingToggles' = (pendingToggles (-) SetToBag({t})) (+)
                      SetToBag({ToggleCall(t.flatId, "setDoc",
                                           Splice(userFavorites, t.flatId),
                                           t.before)})
           ELSE /\ favorites' = Append(favorites, t.flatId)
                /\ toast' = Toast("Added to favorites!", "success")
                /\ pendingToggles' = (pendingToggles (-) SetToBag({t})) (+)
                      SetToBag({ToggleCall(t.flatId, "setDoc",
                                           Append(userFavorites, t.flatId),
                                           t.before)})
    /\ lastFetch' = NoFetch
    /\ UNCHANGED <<seed, authReady, currentUser, currentFilters, allFlatsData,
                   displayedFlatsCount, lastVisibleFlat, storedFavorites,
                   remoteFavorites, flatsList, loadMoreBtnHidden,
                   noFlatsMessage, pendingFetches, pendingLoads, toggles>>
    /\ ListingStep

\* Lines 411-416: the write succeeded
toggleSetDocResolve(t) ==
    /\ BagIn(t, pendingToggles)
    /\ t.stage = "setDoc"
    /\ pendingToggles' = pendingToggles (-) SetToBag({t})
    /\ remoteFavorites' = t.userFavorites
    /\ storedFavorites' = favorites
    /\ toast' = NoToast
    /\ IF currentFilters.showFavorites
       THEN FetchFlatsCall(TRUE, currentFilters, favorites,
                           IF Includes(t.userFavorites, t.flatId) THEN Null
                           ELSE t.flatId)
       ELSE /\ lastFetch' = NoFetch
            /\ UNCHANGED <<allFlatsData, displayedFlatsCount, lastVisibleFlat,
                           flatsList, loadMoreBtnHidden, noFlatsMessage,
                           pendingFetches>>
    /\ UNCHANGED <<seed, authReady, currentUser, currentFilters, favorites,
                   pendingLoads, toggles>>
    /\ ListingStep

\* Lines 417-420: the read or the write failed
toggleReject(t) ==
    /\ BagIn(t, pendingToggles)
    /\ pendingToggles' = pendingToggles (-) SetToBag({t})
    /\ toast' = Toast("Error updating favorites. Please try again.", "error")
    /\ lastFetch' = NoFetch
    /\ UNCHANGED <<seed, authReady, currentUser, currentFilters, allFlatsData,
                   displayedFlatsCount, lastVisibleFlat, favorites,
                   storedFavorites, remoteFavorites, flatsList,
                   loadMoreBtnHidden, noFlatsMessage, pendingFetches,
                   pendingLoads, toggles>>
    /\ ListingStep

-----------------------------------------------------------------------------

\* The load-more button is pressed: it can be only while it is shown
ClickLoadMore == ~loadMoreBtnHidden /\ handleLoadMore

(* The listing: the fetch controller under every interleaving of its       *)
(* calls, sign-in and sign-out, and favourite clicks of a signed-out user. *)
Next ==
    \/ \E snapshot \in FilterSnapshots : handleApplyFilters(snapshot)
    \/ ClickLoadMore
    \/ \E r \in BagToSet(pendingFetches) : FetchResolve(r)
    \/ \E r \in BagToSet(pendingFetches) : FetchReject(r)
    \/ \E user \in Users \cup {NoUser} : onAuthStateChanged(user)
    \/ loadFavoritesResolve
    \/ loadFavoritesReject
    \/ \E flatId \in Ids(seed) : currentUser = NoUser /\ toggleFavorite(flatId)

Spec == Init /\ [][Next]_vars

(* The favourites: toggles of a signed-in user, with the filter changed    *)
(* and further pages loaded only while no store call is in flight.         *)
Idle == StoreCalls = 0

NextFavorites ==
    \/ \E snapshot \in FilterSnapshots : Idle /\ handleApplyFilters(snapshot)
    \/ Idle /\ ClickLoadMore
    \/ \E r \in BagToSet(pendingFetches) : FetchResolve(r)
    \/ \E r \in BagToSet(pendingFetches) : FetchReject(r)
    \/ \E user \in Users \cup {NoUser} : onAuthStateChanged(user)
    \/ loadFavoritesResolve
    \/ loadFavoritesReject
    \/ \E flatId \in Ids(seed) : toggleFavorite(flatId)
    \/ \E t \in BagToSet(pendingToggles) : toggleGetDocResolve(t)
    \/ \E t \in BagToSet(pendingToggles) : toggleSetDocResolve(t)
    \/ \E t \in BagToSet(pendingToggles) : toggleReject(t)

SpecFavorites == Init /\ [][NextFavorites]_vars

(* The pagination scenario: a signed-out visitor applies the scenario's    *)
(* filter to a scenario store and asks for further pages one at a time,    *)
(* whether or not the button is shown, each call made after the one before *)
(* it has ended.                                                           *)
ScenarioFilter ==
    Snapshot("rent", "all", <<"1", "0", "0", "0">>, <<"2", "0", "0", "0">>,
             "price-asc", FALSE)

InitScenario == Start(ScenarioSeeds)

NextScenario ==
    \/ onAuthStateChanged(NoUser)
    \/ Idle /\ handleApplyFilters(ScenarioFilter)
    \/ Idle /\ handleLoadMore
    \/ \E r \in BagToSet(pendingFetches) : FetchResolve(r)
    \/ \E r \in BagToSet(pendingFetches) : FetchReject(r)

SpecScenario == InitScenario /\ [][NextScenario]_vars

-----------------------------------------------------------------------------
(* The recently viewed list, lines 278-292 and 460-468.  An entry is the   *)
(* unit as it was fetched; the store's units never change, so the entry is *)
(* modelled by the unit's id, and the JSON text kept in localStorage by    *)
(* the list of ids it encodes.                                             *)

\* (variant: the list is never cut)
CappedNever(list) == list
\* Lines 463-465
Capped(list) ==
    IF Len(list) > recentlyViewedLimit THEN SubSeq(list, 1, recentlyViewedLimit)
    ELSE list

\* Lines 461-462: filter out the unit, then unshift it
Unshifted(list, flatId) == <<flatId>> \o Without(list, flatId)

\* Line 288: displayRecentlyViewed keeps the entries that have an id
WithIds(list) == SelectSeq(list, LAMBDA id : id # Null)

\* Lines 460-468, with the displayRecentlyViewed it ends in
addToRecentlyViewed(flatId) ==
    LET list == Capped(Unshifted(recentlyViewed, flatId)) IN
    /\ storedRecentlyViewed' = list
    /\ recentlyViewed' = WithIds(list)

\* The cards whose "view details" can be clicked: those of the listing and
\* those of the recently viewed list
ViewableCards ==
    ({flatsList[k] : k \in 1..Len(flatsList)} \ {Null})
        \cup {recentlyViewed[k] : k \in 1..Len(recentlyViewed)}

\* Lines 294-335
showFlatDetailModal(flatId) ==
    /\ authReady
    /\ flatId \in ViewableCards
    /\ addToRecentlyViewed(flatId)
    /\ toast' = NoToast
    /\ lastFetch' = NoFetch
    /\ uncaught' = NoError
    /\ UNCHANGED <<seed, authReady, currentUser, currentFilters, allFlatsData,
                   displayedFlatsCount, lastVisibleFlat, favorites,
                   storedFavorites, remoteFavorites, flatsList,
                   loadMoreBtnHidden, noFlatsMessage, pendingFetches,
                   pendingLoads, pendingToggles, toggles, currentCurrency,
                   inquiries, pendingInquiries, formMessage, apiCalls,
                   response>>

-----------------------------------------------------------------------------
(* Currency, lines 18-46, 102-110 and 739-746 *)

\* Three of the currencies of CONFIG.exchangeRates, the rates in thousandths
Currencies == {"USD", "EUR", "JPY"}
exchangeRates == [USD |-> 1000, EUR |-> 920, JPY |-> 156000]

\* Lines 102-110: the converted price, formatted with no fraction digits
\* (halves are rounded away from zero)
formatPrice(price, currency) ==
    [currency |-> currency,
     amount |-> (price * exchangeRates[currency] + 500) \div 1000]

\* The price each card of the listing shows (line 213): every card is
\* created by the step that displays it, under the currency of that step,
\* and a change of currency creates the cards anew
CardPrices ==
    [k \in 1..Len(flatsList) |->
        IF flatsList[k] = Null THEN Null
        ELSE formatPrice(Flat(flatsList[k]).price, currentCurrency)]

\* The fields of `elements` that initializeElements assigns (lines 780-839)
\* or fetchFlats looks up (line 599), as far as the handlers modelled here
\* read them.  No line of the script assigns elements.currencySwitcher.
AssignedElements ==
    {"flatsList", "loadMoreBtn", "noFlatsMessage", "offerTypeFilter",
     "flatTypeFilter", "minPriceFilter", "maxPriceFilter", "sortByFilter",
     "favoriteToggleButton", "recentlyViewedList", "contactForm",
     "contactName", "contactEmail", "contactMessage", "formMessage",
     "flatDetailModal"}

\* Lines 739-746.  Reading `.value` of an element that was never assigned
\* throws a TypeError before anything is changed.
handleCurrencyChange ==
    /\ authReady
    /\ IF "currencySwitcher" \in AssignedElements
       THEN /\ currentCurrency' \in Currencies
            /\ flatsList' = allFlatsData
            /\ uncaught' = NoError
       ELSE /\ uncaught' = "TypeError"
            /\ UNCHANGED <<currentCurrency, flatsList>>
    /\ toast' = NoToast
    /\ lastFetch' = NoFetch
    /\ UNCHANGED <<seed, authReady, currentUser, currentFilters, allFlatsData,
                   displayedFlatsCount, lastVisibleFlat, favorites,
                   storedFavorites, remoteFavorites, loadMoreBtnHidden,
                   noFlatsMessage, pendingFetches, pendingLoads,
                   pendingToggles, toggles, recentlyViewed,
                   storedRecentlyViewed, inquiries, pendingInquiries,
                   formMessage, apiCalls, response>>

-----------------------------------------------------------------------------
(* The page of a signed-out visitor: filters applied and pages loaded one  *)
(* call at a time, units viewed, the currency changed.                     *)

\* Price bounds that are not numbers, typed into the filter controls
UnparseableSnapshots ==
    {Snapshot("all", "all", <<>>, <<"a">>, "price-asc", FALSE),
     Snapshot("all", "all", <<"a">>, <<>>, "price-asc", FALSE),
     Snapshot("rent", "all", <<"2">>, <<"a", "4">>, "price-desc", FALSE)}

PageSnapshots ==
    {Snapshot("all", "all", <<>>, <<>>, "price-desc", FALSE),
     Snapshot("rent", "all", <<"2">>, <<>>, "price-desc", FALSE)}
        \cup UnparseableSnapshots

\* A first visit: nothing is stored from a session before
InitPage == Init /\ storedFavorites = Absent /\ remoteFavorites = Absent

NextPage ==
    \/ onAuthStateChanged(NoUser)
    \/ \E snapshot \in PageSnapshots : Idle /\ handleApplyFilters(snapshot)
    \/ Idle /\ ClickLoadMore
    \/ \E r \in BagToSet(pendingFetches) : FetchResolve(r)
    \/ \E r \in BagToSet(pendingFetches) : FetchReject(r)
    \/ \E flatId \in Ids(seed) : showFlatDetailModal(flatId)
    \/ handleCurrencyChange

SpecPage == InitPage /\ [][NextPage]_vars

-----------------------------------------------------------------------------
(* Inquiries: the contact form of the page (lines 748-777) and the REST    *)
(* relay (index.js), which run against the same store.  A request's query  *)
(* or body is a record holding the fields that were sent.                  *)

\* `!value`: the field was not sent, or is the empty string
Given(fields, name) == name \in DOMAIN fields /\ fields[name] # ""

\* (variant: one field is enough)
AnyPresent(fields) ==
    Given(fields, "name") \/ Given(fields, "email") \/ Given(fields, "message")
\* index.js line 75 and script.js line 755
AllPresent(fields) ==
    Given(fields, "name") /\ Given(fields, "email") /\ Given(fields, "message")

\* The document both writers add (the timestamp is left out)
Inquiry(fields) ==
    [name |-> fields.name, email |-> fields.email, message |-> fields.message]

\* Calls of either process the model lets wait on the store at once
CanSend ==
    BagCardinality(apiCalls) + BagCardinality(pendingInquiries) < MaxInFlight

\* What the steps of the relay leave alone: the page
PageUnchanged ==
    UNCHANGED <<seed, authReady, currentUser, currentFilters, allFlatsData,
                displayedFlatsCount, lastVisibleFlat, favorites,
                storedFavorites, remoteFavorites, flatsList,
                loadMoreBtnHidden, noFlatsMessage, toast, lastFetch,
                pendingFetches, pendingLoads, pendingToggles, toggles,
                recentlyViewed, storedRecentlyViewed, currentCurrency,
                uncaught, pendingInquiries, formMessage>>

\* What the contact form leaves alone: the listing and the relay
FormStep ==
    /\ lastFetch' = NoFetch
    /\ uncaught' = NoError
    /\ UNCHANGED <<seed, authReady, currentUser, currentFilters, allFlatsData,
                   displayedFlatsCount, lastVisibleFlat, favorites,
                   storedFavorites, remoteFavorites, flatsList,
                   loadMoreBtnHidden, noFlatsMessage, pendingFetches,
                   pendingLoads, pendingToggles, toggles, recentlyViewed,
                   storedRecentlyViewed, currentCurrency, apiCalls, response>>

\* What is typed into the contact form: each control holds a string
FormInputs ==
    [name : {"", "Test User"}, email : {"", "test@example.com"},
     message : {"", "Hello"}]

\* Lines 748-761: the submit, up to the addDoc
handleContactFormSubmit(fields) ==
    /\ authReady
    /\ IF ~AllPresent(fields)
       THEN /\ formMessage' = FormMessage("Please fill in all fields.", "red")
            /\ UNCHANGED pendingInquiries
       ELSE /\ CanSend
            /\ formMessage' = FormMessage("", formMessage.color)
            /\ pendingInquiries' = pendingInquiries (+) SetToBag({fields})
    /\ toast' = NoToast
    /\ UNCHANGED inquiries
    /\ FormStep

\* Lines 761-770: addDoc resolved
contactFormResolve(fields) ==
    /\ BagIn(fields, pendingInquiries)
    /\ Len(inquiries) < MaxInquiries
    /\ pendingInquiries' = pendingInquiries (-) SetToBag({fields})
    /\ inquiries' = Append(inquiries, Inquiry(fields))
    /\ formMessage' = FormMessage("Your message has been sent!", "green")
    /\ toast' = Toast("Inquiry sent successfully!", "success")
    /\ FormStep

\* Lines 771-776: addDoc rejected
contactFormReject(fields) ==
    /\ BagIn(fields, pendingInquiries)
    /\ pendingInquiries' = pendingInquiries (-) SetToBag({fields})
    /\ formMessage' =
          FormMessage("Failed to send message. Please try again.", "red")
    /\ toast' = Toast("Failed to send inquiry.", "error")
    /\ UNCHANGED inquiries
    /\ FormStep

\* Bodies posted to the relay: the body of the repository's test, and
\* bodies with a field left out or empty
InquiryBodies ==
    {[name |-> "Test User", email |-> "test@example.com", message |-> "Hello"],
     [name |-> "Test User", email |-> "test@example.com"],
     [name |-> "", email |-> "test@example.com", message |-> "Hello"],
     [name |-> "Test User", email |-> "", message |-> ""],
     [message |-> "Hello"]}

RelayCall(route, fields) == [route |-> route, fields |-> fields]

\* index.js lines 72-83: POST /api/inquiries up to the add
postInquiries(body) ==
    /\ IF ~AllPresent(body)
       THEN /\ response' = Response(400, "All fields are required")
            /\ UNCHANGED apiCalls
       ELSE /\ CanSend
            /\ response' = NoResponse
            /\ apiCalls' = apiCalls (+)
                            SetToBag({RelayCall("POST /api/inquiries", body)})
    /\ UNCHANGED inquiries
    /\ PageUnchanged

\* index.js lines 78-84: the add was acknowledged
postInquiriesResolve(c) ==
    /\ BagIn(c, apiCalls)
    /\ c.route = "POST /api/inquiries"
    /\ Len(inquiries) < MaxInquiries
    /\ apiCalls' = apiCalls (-) SetToBag({c})
    /\ inquiries' = Append(inquiries, Inquiry(c.fields))
    /\ response' = Response(201, "Inquiry submitted successfully")
    /\ PageUnchanged

\* index.js lines 85-88: the add failed
postInquiriesReject(c) ==
    /\ BagIn(c, apiCalls)
    /\ c.route = "POST /api/inquiries"
    /\ apiCalls' = apiCalls (-) SetToBag({c})
    /\ response' = Response(500, "Failed to submit inquiry")
    /\ UNCHANGED inquiries
    /\ PageUnchanged

-----------------------------------------------------------------------------
(* GET /api/flats of the relay, index.js lines 26-55 *)

\* A text parameter was sent and is not the empty string
GivenText(fields, name) == name \in DOMAIN fields /\ Truthy(fields[name])

\* Lines 31 and 34: `!== 'all'`
Wanted(value) == value # "all"

\* Line 44: sortBy.includes('-') ? sortBy.split('-') : [sortBy, 'asc']
SplitSortBy(sortBy) ==
    CASE sortBy = "price-asc" -> <<"price", "asc">>
      [] sortBy = "area-desc" -> <<"area", "desc">>
      [] sortBy = "area" -> <<"area", "asc">>
      [] sortBy = "newest" -> <<"newest", "asc">>

HasField(u, field) == field \in DOMAIN u

\* Lines 31-46: the where clauses, and the orderBy, which leaves out the
\* documents that do not hold the field it orders by
RelayMatches(u, query) ==
    /\ (Given(query, "offerType") /\ Wanted(query.offerType))
          => u.offerType = query.offerType
    /\ (Given(query, "flatType") /\ Wanted(query.flatType))
          => u.type = query.flatType
    /\ GivenText(query, "minPrice") => u.price >= parseFloat(query.minPrice)
    /\ GivenText(query, "maxPrice") => u.price <= parseFloat(query.maxPrice)
    /\ Given(query, "sortBy") => HasField(u, SplitSortBy(query.sortBy)[1])

\* The order of the answer: the orderBy field if there is one, then the
\* price if it is range-filtered and not yet ordered by, then the id
RelayKey(u, query) ==
    LET field == IF Given(query, "sortBy") THEN SplitSortBy(query.sortBy)[1]
                 ELSE "id"
        ranged == GivenText(query, "minPrice") \/ GivenText(query, "maxPrice")
    IN  <<IF HasField(u, field) THEN u[field] ELSE 0,
          IF field # "price" /\ ranged THEN u.price ELSE 0,
          u.id>>

RelayPrecedes(a, b, query) ==
    IF Given(query, "sortBy") /\ SplitSortBy(query.sortBy)[2] = "desc"
    THEN KeyLess(b, a) ELSE KeyLess(a, b)

\* Line 48-49: query.get() and the array made of its documents
RelayResult(query) ==
    LET hits == {i \in Ids(seed) : RelayMatches(Flat(i), query)}
        rank == [i \in hits |->
                    Cardinality({j \in hits :
                        RelayPrecedes(RelayKey(Flat(j), query),
                                      RelayKey(Flat(i), query), query)}) + 1]
    IN  [k \in 1..Cardinality(hits) |-> CHOOSE i \in hits : rank[i] = k]

\* Query strings sent to the relay
FlatsQueries ==
    {[offerType |-> "all"],
     [offerType |-> "rent", minPrice |-> <<"2">>],
     [offerType |-> "sale", flatType |-> "all", sortBy |-> "price-asc"],
     [flatType |-> "studio", maxPrice |-> <<"4">>, sortBy |-> "area"],
     [minPrice |-> <<"2">>, maxPrice |-> <<"4">>, sortBy |-> "area-desc"],
     [offerType |-> "", flatType |-> "1BR"],
     [sortBy |-> "newest"]}

NoParameters == [n \in {} |-> ""]

\* Lines 26-48, up to the get
getFlats(query) ==
    /\ CanSend
    /\ response' = NoResponse
    /\ apiCalls' = apiCalls (+) SetToBag({RelayCall("GET /api/flats", query)})
    /\ UNCHANGED inquiries
    /\ PageUnchanged

\* Lines 48-50
getFlatsResolve(c) ==
    /\ BagIn(c, apiCalls)
    /\ c.route = "GET /api/flats"
    /\ apiCalls' = apiCalls (-) SetToBag({c})
    /\ response' = Response(200, RelayResult(c.fields))
    /\ UNCHANGED inquiries
    /\ PageUnchanged

\* Lines 51-54
getFlatsReject(c) ==
    /\ BagIn(c, apiCalls)
    /\ c.route = "GET /api/flats"
    /\ apiCalls' = apiCalls (-) SetToBag({c})
    /\ response' = Response(500, "Failed to fetch apartments")
    /\ UNCHANGED inquiries
    /\ PageUnchanged

(* The relay and the contact form of a page that is shown, each taking     *)
(* requests while the store answers earlier ones.                          *)
NextRelay ==
    \/ onAuthStateChanged(NoUser)
    \/ \E r \in BagToSet(pendingFetches) : FetchResolve(r)
    \/ \E fields \in FormInputs : handleContactFormSubmit(fields)
    \/ \E fields \in BagToSet(pendingInquiries) : contactFormResolve(fields)
    \/ \E fields \in BagToSet(pendingInquiries) : contactFormReject(fields)
    \/ \E body \in InquiryBodies : postInquiries(body)
    \/ \E c \in BagToSet(apiCalls) : postInquiriesResolve(c)
    \/ \E c \in BagToSet(apiCalls) : postInquiriesReject(c)
    \/ \E query \in FlatsQueries \cup {NoParameters} : getFlats(query)
    \/ \E c \in BagToSet(apiCalls) : getFlatsResolve(c)
    \/ \E c \in BagToSet(apiCalls) : getFlatsReject(c)

SpecRelay == InitPage /\ [][NextRelay]_vars

-----------------------------------------------------------------------------
(* Properties of the fetch controller *)

\* A unit satisfies every active predicate of a filter state
Satisfies(u, filters) ==
    /\ filters.offerType # "all" => u.offerType = filters.offerType
    /\ filters.flatType # "all" => u.type = filters.flatType
    /\ filters.minPrice # <<>> => u.price >= parseFloat(filters.minPrice)
    /\ filters.maxPrice # <<>> => u.price <= parseFloat(filters.maxPrice)

NoDuplicates(list) ==
    \A j, k \in 1..Len(list) : list[j] = list[k] => j = k

IsPrefix(a, b) == Len(a) <= Len(b) /\ a = SubSeq(b, 1, Len(a))

\* Everything the store holds for a query, in the query's order
WholeResult(q) ==
    SelectSeq(OrderedIds[seed][q.filters.sortBy][Ranged(q.filters)],
              LAMBDA i : Matches(Flat(i), q))

\* The query a continuation call composes in the current state
Continuation ==
    FetchRequest(FALSE, currentFilters, favorites, lastVisibleFlat, Null)

\* C1: when the reset fetch that an apply triggered completes, every unit
\* of allFlatsData satisfies every active predicate of the filter applied
\* (offer type, flat type, lower and upper price bound).
C1_ApplyYieldsOnlyMatching ==
    [][\A r \in BagToSet(pendingFetches) :
          (r.reset /\ FetchResolve(r)) =>
              \A k \in 1..Len(allFlatsData') :
                  Satisfies(Flat(allFlatsData'[k]), r.filters)]_vars

\* C2: while allFlatsData holds the first pages of the current filter's
\* result and the calls in flight are load-more calls made under that
\* filter, the completion of one of them leaves allFlatsData free of
\* duplicate ids, and longer unless the page it returned was empty.
C2_LoadMoreGrowsWithoutDuplicates ==
    [][\A r \in BagToSet(pendingFetches) :
          (/\ FetchResolve(r)
           /\ \A other \in BagToSet(pendingFetches) :
                  ~other.reset /\ other.filters = Continuation.filters
                               /\ other.inIds = Continuation.inIds
           /\ IsPrefix(allFlatsData, WholeResult(r))
           /\ NoDuplicates(allFlatsData))
          => /\ NoDuplicates(allFlatsData')
             /\ lastFetch'.docs # <<>> => Len(allFlatsData') > Len(allFlatsData)]_vars

\* C3: when a reset fetch completes, allFlatsData is as long as the page
\* the fetch returned: it holds that page and nothing else.
C3_ResetYieldsOnePage ==
    [][(lastFetch'.outcome = "fetched" /\ lastFetch'.reset)
          => /\ Len(allFlatsData') = Len(lastFetch'.docs)
             /\ allFlatsData' = lastFetch'.docs]_vars

\* C4: whenever fetchFlats runs with showFavorites set and no favourite,
\* on a reset or on a continuation, it issues no query, no unit is
\* displayed, allFlatsData is empty and "no favorites" is signalled.
C4_NoFavoritesShortCircuit ==
    [][(/\ lastFetch'.outcome \in {"called", "no-favorites"}
        /\ currentFilters'.showFavorites
        /\ favorites' = <<>>)
          => /\ pendingFetches' = pendingFetches
             /\ flatsList' = <<>>
             /\ allFlatsData' = <<>>
             /\ noFlatsMessage' = Shown("No favorite apartments found.")]_vars

\* C5 as stated: when the query of a call fails, allFlatsData is what it
\* was before the call, on a reset and on a continuation alike (the call
\* being the only one in flight, and failing in the step after it is made).
C5_FailureRestoresList ==
    [][(/\ lastFetch.outcome = "called"
        /\ BagCardinality(pendingFetches) = 1
        /\ lastFetch'.outcome = "error")
          => allFlatsData' = lastFetch.found]_vars

\* C5: when the query of a call fails, the failure itself changes neither
\* allFlatsData nor the cursor (nothing is merged, nothing is restored),
\* so that a call that was alone in flight leaves the list it found when
\* it was a continuation and the list its reset block emptied when it was
\* a reset; "Error loading apartments." is raised as a toast and in the
\* list's place; and no query is issued in the failed one's stead.
C5_FailureMergesNothing ==
    [][lastFetch'.outcome = "error"
          => /\ allFlatsData' = allFlatsData
             /\ lastVisibleFlat' = lastVisibleFlat
             /\ (lastFetch.outcome = "called" /\ BagCardinality(pendingFetches) = 1)
                    => allFlatsData' = IF lastFetch.reset THEN <<>>
                                       ELSE lastFetch.found
             /\ toast' = Toast("Error loading apartments.", "error")
             /\ noFlatsMessage' = Shown("Error loading apartments.")
             /\ flatsList' = <<>>
             /\ BagCardinality(pendingFetches') =
                    BagCardinality(pendingFetches) - 1]_vars

\* A reset call has failed
C5_Witness ==
    /\ lastFetch.outcome = "error"
    /\ lastFetch.reset
    /\ allFlatsData = <<>>
    /\ lastVisibleFlat = Null
    /\ toast = Toast("Error loading apartments.", "error")
    /\ pendingFetches = EmptyBag

\* C6: allFlatsData gets shorter only in the step of a reset call; and the
\* step of a reset call leaves allFlatsData empty and the cursor absent,
\* the query it issues starting from no cursor.
C6_MonotoneBetweenResets ==
    [][/\ Len(allFlatsData') < Len(allFlatsData)
            => (lastFetch'.outcome \in {"called", "no-favorites"} /\ lastFetch'.reset)
       /\ (lastFetch'.outcome \in {"called", "no-favorites"} /\ lastFetch'.reset)
            => /\ allFlatsData' = <<>>
               /\ lastVisibleFlat' = Null
               /\ \A r \in BagToSet(pendingFetches') :
                      CopiesIn(r, pendingFetches') > CopiesIn(r, pendingFetches)
                          => r.reset /\ r.after = Null]_vars

\* A reset call has emptied a list that held units
C6_Witness ==
    /\ lastFetch.outcome = "called"
    /\ lastFetch.reset
    /\ lastFetch.found # <<>>
    /\ allFlatsData = <<>>
    /\ lastVisibleFlat = Null

C8_HasMoreIffFullPage ==
    [][/\ lastFetch'.outcome = "fetched"
            => (~loadMoreBtnHidden' <=> Len(lastFetch'.docs) = flatsPerPage)
       /\ lastFetch'.outcome = "no-favorites" => loadMoreBtnHidden']_vars

\* A page shorter than flatsPerPage has arrived while the button was shown
C8_Witness ==
    /\ lastFetch.outcome = "fetched"
    /\ ~lastFetch.reset
    /\ Len(lastFetch.docs) \in 1..(flatsPerPage - 1)
    /\ Len(allFlatsData) > flatsPerPage
    /\ loadMoreBtnHidden

\* C10: toggleFavorite with no user signed in raises the info toast
\* "Please log in to manage favorites.", starts no read and no write of
\* the user's document, and leaves the favourites in memory, in
\* localStorage and in the user's document as they were.
C10_GuestToggleChangesNothing ==
    [][\A flatId \in Ids(seed) :
          (currentUser = NoUser /\ toggleFavorite(flatId))
          => /\ toast' = Toast("Please log in to manage favorites.", "info")
             /\ pendingToggles' = pendingToggles
             /\ pendingLoads' = pendingLoads
             /\ pendingFetches' = pendingFetches
             /\ favorites' = favorites
             /\ storedFavorites' = storedFavorites
             /\ remoteFavorites' = remoteFavorites]_vars

\* A signed-out visitor has clicked the favourite button of a card
C10_Witness ==
    /\ currentUser = NoUser
    /\ toast = Toast("Please log in to manage favorites.", "info")
    /\ flatsList # <<>>
    /\ pendingToggles = EmptyBag

-----------------------------------------------------------------------------
(* The pagination scenario *)

\* The units of the store that are for rent at a price from 1000 to 2000
ScenarioMatching ==
    {i \in Ids(seed) : /\ Flat(i).offerType = "rent"
                       /\ Flat(i).price >= 1000
                       /\ Flat(i).price <= 2000}

ScenarioApplied ==
    \A f \in DOMAIN ScenarioFilter : currentFilters[f] = ScenarioFilter[f]

AscendingPrice(list) ==
    \A j, k \in 1..Len(list) : j < k => Flat(list[j]).price <= Flat(list[k]).price

Range(list) == {list[k] : k \in 1..Len(list)}

\* C9: with the filter rent, 1000 to 2000, price ascending, a store of 10
\* matching and 5 other units and pages of 6: the reset fetch returns 6
\* matching units in ascending price order, the cheapest there are; the
\* load-more after it returns the 4 that remain; and the load-more after
\* that returns no unit, hides the load-more button and raises "No more
\* apartments to load.".
C9_ScenarioPages ==
    [][(ScenarioApplied' /\ lastFetch'.outcome = "fetched")
          => LET page == lastFetch'.docs IN
             /\ lastFetch'.reset
                  => /\ Len(page) = 6
                     /\ Range(page) \subseteq ScenarioMatching
                     /\ NoDuplicates(page)
                     /\ AscendingPrice(page)
                     /\ \A i \in ScenarioMatching \ Range(page) :
                            Flat(i).price >= Flat(page[Len(page)]).price
                     /\ ~loadMoreBtnHidden'
             /\ (~lastFetch'.reset /\ Len(allFlatsData) = 6)
                  => /\ Len(page) = 4
                     /\ Range(allFlatsData') = ScenarioMatching
                     /\ NoDuplicates(allFlatsData')
                     /\ AscendingPrice(allFlatsData')
             /\ (~lastFetch'.reset /\ Len(allFlatsData) = 10)
                  => /\ page = <<>>
                     /\ allFlatsData' = allFlatsData
                     /\ loadMoreBtnHidden'
                     /\ toast' = Toast("No more apartments to load.", "info")]_vars

\* The third call of the scenario has returned its empty page
C9_Witness ==
    /\ ScenarioApplied
    /\ Cardinality(ScenarioMatching) = 10
    /\ Cardinality(Ids(seed) \ ScenarioMatching) = 5
    /\ lastFetch.outcome = "fetched"
    /\ ~lastFetch.reset
    /\ lastFetch.docs = <<>>
    /\ Len(allFlatsData) = 10
    /\ toast = Toast("No more apartments to load.", "info")

-----------------------------------------------------------------------------
(* Properties of the favourites *)

\* C11: when the write of a toggleFavorite call by a signed-in user
\* succeeds, the unit is in the user's document iff it was not there when
\* the call was made, and it is in the favourites in memory iff it was
\* not there when the call was made.
C11_ToggleFlipsBothStores ==
    [][\A t \in BagToSet(pendingToggles) :
          toggleSetDocResolve(t)
          => /\ Includes(remoteFavorites', t.flatId) <=> ~t.before.remote
             /\ Includes(favorites', t.flatId) <=> ~t.before.local]_vars

\* C12: when the write of a toggleFavorite call fails, the favourites in
\* memory keep the flipped membership of the unit (it is there iff it
\* was not when the call was made) and the user's document keeps the
\* membership it had.
C12_FailedWriteKeepsLocalFlip ==
    [][\A t \in BagToSet(pendingToggles) :
          (t.stage = "setDoc" /\ toggleReject(t))
          => /\ Includes(favorites', t.flatId) <=> ~t.before.local
             /\ Includes(remoteFavorites', t.flatId) <=> t.before.remote]_vars

\* C13: with showFavorites active, a toggleFavorite call that took a unit
\* off the favourites calls fetchFlats(true) when its write succeeds; and
\* when the query of that call completes, every unit displayed and every
\* unit of allFlatsData is one of the favourites.
C13_ToggleOffRefetchesFavorites ==
    [][/\ \A t \in BagToSet(pendingToggles) :
            (/\ toggleSetDocResolve(t)
             /\ currentFilters.showFavorites
             /\ ~Includes(t.userFavorites, t.flatId))
            => /\ lastFetch'.outcome \in {"called", "no-favorites"}
               /\ lastFetch'.reset
       /\ \A r \in BagToSet(pendingFetches) :
            (r.removed # Null /\ FetchResolve(r))
            => /\ \A k \in 1..Len(allFlatsData') :
                      Includes(favorites', allFlatsData'[k])
               /\ \A k \in 1..Len(flatsList') :
                      Includes(favorites', flatsList'[k])]_vars

-----------------------------------------------------------------------------
(* Properties of the recently viewed list *)

\* C14: whenever a unit is viewed, the recently viewed list afterwards holds
\* at most recentlyViewedLimit entries, no two of them of the same unit, has
\* the unit just viewed at index 0 followed by the units viewed before it
\* in the order they had, and equals the list kept in localStorage.
C14_RecentlyViewedCappedDistinctNewestFirst ==
    [][\A flatId \in Ids(seed) :
          showFlatDetailModal(flatId)
          => /\ Len(recentlyViewed') <= recentlyViewedLimit
             /\ NoDuplicates(recentlyViewed')
             /\ recentlyViewed'[1] = flatId
             /\ IsPrefix(Tail(recentlyViewed'), Without(recentlyViewed, flatId))
             /\ storedRecentlyViewed' = recentlyViewed']_vars

\* The list is full, is persisted, and holds a unit viewed on an earlier
\* listing next to units of the listing now shown
C14_Witness ==
    /\ Len(recentlyViewed) = recentlyViewedLimit
    /\ storedRecentlyViewed = recentlyViewed
    /\ \E k \in 1..Len(recentlyViewed) : ~Includes(flatsList, recentlyViewed[k])
    /\ \E k \in 1..Len(recentlyViewed) : Includes(flatsList, recentlyViewed[k])

-----------------------------------------------------------------------------
(* Properties of the currency change *)

\* C15: a currency change runs to its end, issues no store query, leaves
\* allFlatsData, the cursor and the filter state unchanged, and shows one
\* card for every record of allFlatsData, priced in the currency now
\* selected (so that the prices shown depend on the records and the
\* selected currency only, and A to B and back to A shows the prices of A).
C15_CurrencyChangeRerendersAll ==
    [][handleCurrencyChange
       => /\ uncaught' = NoError
          /\ pendingFetches' = pendingFetches
          /\ UNCHANGED <<allFlatsData, lastVisibleFlat, currentFilters>>
          /\ flatsList' = allFlatsData
          /\ CardPrices' =
                [k \in 1..Len(allFlatsData) |->
                    formatPrice(Flat(allFlatsData[k]).price, currentCurrency')]
      ]_vars

-----------------------------------------------------------------------------
(* Properties of the relay and of the contact form *)

\* C16: the inquiries collection grows only by one document at a time,
\* written for a request whose name, email and message are all present.
\* POST /api/inquiries with a field missing answers 400 at once and never
\* reaches the store; with all three present it answers 201 and the message
\* 'Inquiry submitted successfully' in the step that adds its one document,
\* and in no other step.  The contact form with an empty field sends
\* nothing to the store.
C16_InquiryWrittenOnlyWhenComplete ==
    [][/\ inquiries' # inquiries
          => /\ Len(inquiries') = Len(inquiries) + 1
             /\ SubSeq(inquiries', 1, Len(inquiries)) = inquiries
             /\ AllPresent(inquiries'[Len(inquiries')])
       /\ \A body \in InquiryBodies :
             postInquiries(body)
             => /\ inquiries' = inquiries
                /\ IF Given(body, "name") /\ Given(body, "email")
                      /\ Given(body, "message")
                   THEN /\ response' = NoResponse
                        /\ apiCalls' = apiCalls (+) SetToBag(
                              {RelayCall("POST /api/inquiries", body)})
                   ELSE /\ response'.status = 400
                        /\ apiCalls' = apiCalls
       /\ \A c \in BagToSet(apiCalls) :
             postInquiriesResolve(c)
             => /\ response' = Response(201, "Inquiry submitted successfully")
                /\ inquiries' = Append(inquiries, Inquiry(c.fields))
       /\ (response' # response /\ response'.status = 201)
             => Len(inquiries') = Len(inquiries) + 1
       /\ \A fields \in FormInputs :
             (handleContactFormSubmit(fields)
                /\ (fields.name = "" \/ fields.email = "" \/ fields.message = ""))
             => /\ inquiries' = inquiries
                /\ pendingInquiries' = pendingInquiries]_vars

\* Two inquiries have been written, the relay has just answered 400 to an
\* incomplete body, the form shows its complaint about an empty field, and
\* nothing is waiting on the store
C16_Witness ==
    /\ Len(inquiries) = 2
    /\ response.status = 400
    /\ formMessage.text = "Please fill in all fields."
    /\ apiCalls = EmptyBag
    /\ pendingInquiries = EmptyBag

\* A unit satisfies every predicate the query string supplies
SatisfiesSupplied(u, query) ==
    /\ ("offerType" \in DOMAIN query /\ query.offerType \notin {"", "all"})
          => u.offerType = query.offerType
    /\ ("flatType" \in DOMAIN query /\ query.flatType \notin {"", "all"})
          => u.type = query.flatType
    /\ "minPrice" \in DOMAIN query => u.price >= parseFloat(query.minPrice)
    /\ "maxPrice" \in DOMAIN query => u.price <= parseFloat(query.maxPrice)

\* C17: GET /api/flats answers 200 with an array holding exactly
\* the units that satisfy every supplied predicate (offerType and
\* flatType equality unless absent or 'all', price >= minPrice, price <=
\* maxPrice), every unit when no parameter is supplied; a failure of the
\* store is answered 500, with no array.
C17_RelayAnswersAllSatisfying ==
    [][\A c \in BagToSet(apiCalls) :
          /\ getFlatsResolve(c)
                => /\ response'.status = 200
                   /\ NoDuplicates(response'.body)
                   /\ Range(response'.body) =
                        {i \in Ids(seed) : SatisfiesSupplied(Flat(i), c.fields)}
                   /\ c.fields = NoParameters
                        => Range(response'.body) = Ids(seed)
          /\ getFlatsReject(c)
                => /\ response'.status = 500
                   /\ response'.body = "Failed to fetch apartments"]_vars

-----------------------------------------------------------------------------
(* Properties of apply and of the signals of an empty page *)

\* The fields handleApplyFilters takes from the controls
SnapshotFields ==
    {"offerType", "flatType", "minPrice", "maxPrice", "sortBy", "showFavorites"}

\* C18: the step that applies a snapshot leaves every filter field equal to
\* the snapshot's and, in the same step, runs fetchFlats(true): the list
\* and the cursor are reset and, unless the favourites to show are none,
\* one reset query composed from the new filter state is issued.  Every
\* query in flight was composed from the fields of one snapshot, never
\* from fields of two.
C18_ApplyReplacesAllThenRefetches ==
    [][/\ \A snapshot \in FilterSnapshots :
             handleApplyFilters(snapshot)
             => /\ \A f \in SnapshotFields : currentFilters'[f] = snapshot[f]
                /\ lastFetch'.reset
                /\ lastFetch'.outcome \in {"called", "no-favorites"}
                /\ allFlatsData' = <<>>
                /\ lastVisibleFlat' = Null
                /\ lastFetch'.outcome = "called"
                     => pendingFetches' = pendingFetches (+) SetToBag(
                          {FetchRequest(TRUE, currentFilters', favorites,
                                        Null, Null)})
                /\ lastFetch'.outcome = "no-favorites"
                     => pendingFetches' = pendingFetches
       /\ \A r \in BagToSet(pendingFetches') :
             \E snapshot \in FilterSnapshots :
                \A f \in SnapshotFields : r.filters[f] = snapshot[f]]_vars

\* A snapshot that differs from the default in four fields has just been
\* applied while the query of the filter state before it is still in flight
C18_Witness ==
    /\ lastFetch.outcome = "called"
    /\ lastFetch.reset
    /\ currentFilters.offerType = "rent"
    /\ currentFilters.flatType = "studio"
    /\ currentFilters.sortBy = "area-asc"
    /\ \E r \in BagToSet(pendingFetches) : r.filters = currentFilters
    /\ \E r \in BagToSet(pendingFetches) : r.filters.sortBy = "price-desc"

\* A price bound that was typed in and does not start with a number
Unparseable(text) == Truthy(text) /\ parseFloat(text) = NaN

\* The filter state with such bounds left empty
BoundsLeftEmpty(filters) ==
    [filters EXCEPT !.minPrice = IF Unparseable(@) THEN <<>> ELSE @,
                    !.maxPrice = IF Unparseable(@) THEN <<>> ELSE @]

\* C19: a query composed from a filter state with a price bound that does
\* not parse as a number is answered with the page the store gives for the
\* same filter state with that bound left empty.
C19_UnparseableBoundIsAbsent ==
    [][\A r \in BagToSet(pendingFetches) :
          (/\ Unparseable(r.filters.minPrice) \/ Unparseable(r.filters.maxPrice)
           /\ FetchResolve(r))
          => lastFetch'.docs =
                RunQuery([r EXCEPT !.filters = BoundsLeftEmpty(r.filters)])]_vars

\* C20: when the store answers a query with an empty page, a reset fetch
\* shows the no-results message and raises no notification, and a
\* continuation fetch raises the notification "No more apartments to
\* load.", of type info, and leaves the no-results message as it was; a
\* page that is not empty raises neither.  No fetch both raises the
\* notification and changes the no-results message.
C20_EmptyPageSignalByKindOfFetch ==
    [][\A r \in BagToSet(pendingFetches) :
          FetchResolve(r)
          => LET empty == Len(lastFetch'.docs) = 0
                 noResults ==
                    /\ ~noFlatsMessage'.hidden
                    /\ noFlatsMessage'.text =
                          "No apartments found matching your criteria."
                 endOfPagination ==
                    /\ toast'.message = "No more apartments to load."
                    /\ toast'.type = "info"
             IN  /\ (empty /\ r.reset)
                      => noResults /\ toast' = NoToast
                 /\ (empty /\ ~r.reset)
                      => endOfPagination /\ noFlatsMessage' = noFlatsMessage
                 /\ ~empty => noFlatsMessage'.hidden /\ toast' = NoToast
                 /\ endOfPagination => noFlatsMessage' = noFlatsMessage
                 /\ noFlatsMessage' # noFlatsMessage => ~endOfPagination]_vars

\* A continuation fetch has just been answered with an empty page
C20_Witness ==
    /\ lastFetch.outcome = "fetched"
    /\ ~lastFetch.reset
    /\ Len(lastFetch.docs) = 0
    /\ toast.message = "No more apartments to load."
    /\ noFlatsMessage.hidden
    /\ Len(allFlatsData) > 0

-----------------------------------------------------------------------------
(* Properties of overlapping fetches *)

\* C21: pressing load-more issues a continuation query from the cursor as
\* it is, whether or not earlier fetches are in flight, and every answered
\* fetch appends its whole page and moves the cursor to the page's last
\* unit; so two load-more calls made from one cursor append the same page
\* twice.
C21_OverlappingLoadMoreAppendsBoth ==
    [][/\ (ClickLoadMore /\ lastFetch'.outcome = "called")
          => pendingFetches' = pendingFetches (+) SetToBag(
                {FetchRequest(FALSE, currentFilters, favorites,
                              lastVisibleFlat, Null)})
       /\ \A r \in BagToSet(pendingFetches) :
             FetchResolve(r)
             => /\ allFlatsData' = allFlatsData \o RunQuery(r)
                /\ Len(RunQuery(r)) > 0
                     => lastVisibleFlat' = RunQuery(r)[Len(RunQuery(r))]]_vars

\* The list is the first page of the current filter followed by the page
\* after it, twice: both of two overlapping load-more calls were answered
C21_Witness ==
    LET first == RunQuery(FetchRequest(TRUE, currentFilters, favorites,
                                       Null, Null))
        second == RunQuery(FetchRequest(FALSE, currentFilters, favorites,
                                        first[Len(first)], Null))
    IN  /\ pendingFetches = EmptyBag
        /\ Len(first) = flatsPerPage
        /\ Len(second) > 0
        /\ allFlatsData = first \o second \o second
        /\ ~NoDuplicates(allFlatsData)
        /\ lastVisibleFlat = second[Len(second)]

\* C22: the answer to a query composed from an earlier filter state is
\* applied like any other: its page is appended to allFlatsData, displayed,
\* and, when not empty, its last unit becomes the cursor.
C22_StaleAnswerIsApplied ==
    [][\A r \in BagToSet(pendingFetches) :
          (FetchResolve(r) /\ r.filters # currentFilters)
          => /\ allFlatsData' = allFlatsData \o lastFetch'.docs
             /\ lastFetch'.docs = RunQuery(r)
             /\ flatsList' = lastFetch'.docs
             /\ lastFetch'.docs # <<>>
                  => lastVisibleFlat' = allFlatsData'[Len(allFlatsData')]]_vars

\* Every fetch has been answered, the last answer was to a query of an
\* earlier filter state, and allFlatsData ends in a unit, the cursor, that
\* does not satisfy the current filter
C22_Witness ==
    /\ pendingFetches = EmptyBag
    /\ lastFetch.outcome = "fetched"
    /\ lastFetch.docs # <<>>
    /\ allFlatsData # <<>>
    /\ lastVisibleFlat = allFlatsData[Len(allFlatsData)]
    /\ ~Satisfies(Flat(lastVisibleFlat), currentFilters)

-----------------------------------------------------------------------------
(* Properties of the display and of the controls *)

\* C23: when a fetch is answered, the cards of the listing are the running
\* result set: the returned page after a reset, and all of allFlatsData,
\* the earlier pages followed by the new one, after a continuation.
C23_DisplayIsRunningResultSet ==
    [][\A r \in BagToSet(pendingFetches) :
          FetchResolve(r)
          => IF r.reset THEN flatsList' = lastFetch'.docs
             ELSE flatsList' = allFlatsData']_vars

\* C24: in every state the cursor is absent exactly when allFlatsData is
\* empty, and a cursor that is present is the last unit of allFlatsData.
C24_CursorIsLastOfList ==
    /\ lastVisibleFlat = Null <=> allFlatsData = <<>>
    /\ lastVisibleFlat # Null
          => lastVisibleFlat = allFlatsData[Len(allFlatsData)]

\* Overlapping fetches have left a unit twice in the list, one more is in
\* flight, and the cursor is the last unit of the list
C24_Witness ==
    /\ ~NoDuplicates(allFlatsData)
    /\ pendingFetches # EmptyBag
    /\ lastVisibleFlat # Null
    /\ lastVisibleFlat = allFlatsData[Len(allFlatsData)]

\* C25: in every state the favourites in memory hold no unit twice.
C25_FavoritesHoldNoUnitTwice == NoDuplicates(favorites)

\* C26: in every state the load-more button and the message of the listing
\* (no results, no favourites, load error) are not both visible.
C26_MessageHidesLoadMore == ~(~loadMoreBtnHidden /\ ~noFlatsMessage.hidden)
====
